---- MODULE Spec2Model ----
(***************************************************************************)
(* A model of sqla_wrapper.main.SQLAlchemy: construction of the facade     *)
(* (declarative base, option split, engine registry, session factory),    *)
(* the scoped session registry it builds, schema DDL and reconfigure.      *)
(*                                                                         *)
(* Python values are modelled as strings ("None", "True", "False", names   *)
(* of objects); dicts are functions whose DOMAIN is the dict's key set.    *)
(***************************************************************************)
EXTENDS Naturals, FiniteSets, Sequences, TLC

VARIABLES
    args,       \* the arguments of the SQLAlchemy(...) call being made
    self,       \* the attributes set on the facade so far (its __dict__)
    raised,     \* the exception the last call raised, "None" when it returned
    pc_init,    \* "call" before __init__ runs, then "done" (returned) or "failed" (raised)
    Session_kw, \* self.Session.kw: the keyword set sessionmaker passes to sessions
    registry,   \* self._session.registry: scope key -> cached session id (0: absent)
    sessions,   \* session id -> the session object built by self.Session()
    pc,         \* thread -> its position inside scoped_session.__call__
    local,      \* thread -> the session it built and has not yet offered to the registry
    ret,        \* thread -> the session its last self._session() call returned
    schema,     \* the URLs of the databases in which the tables currently exist
    store,      \* engine name -> rows committed in that database
    read_bind,  \* the engine name the routing policy prefers for reads
    last        \* the last operation completed and what it returned

vars == <<args, self, raised, pc_init, Session_kw, registry, sessions, pc, local,
          ret, schema, store, read_bind, last>>

----------------------------------------------------------------------------
(* Python values and dict operations *)

None == "None"

EmptyDict == [k \in {} |-> None]

\* d[k] for k in keys only
Restrict(d, keys) == [k \in keys |-> d[k]]

\* dict.setdefault(k, v), as the resulting dict
SetDefault(d, k, v) ==
    IF k \in DOMAIN d THEN d
    ELSE [x \in DOMAIN d \cup {k} |-> IF x = k THEN v ELSE d[x]]

\* dict.update(**kw), as the resulting dict
Update(d, kw) ==
    [x \in DOMAIN d \cup DOMAIN kw |-> IF x \in DOMAIN kw THEN kw[x] ELSE d[x]]

\* a or b
Or(a, b) == IF a # None THEN a ELSE b

----------------------------------------------------------------------------
(* The inputs the model draws from *)

\* sqlalchemy.util.get_cls_kwargs(Session): the keyword names of Session.__init__
get_cls_kwargs_Session ==
    {"bind", "autoflush", "autocommit", "expire_on_commit", "twophase", "binds",
     "info", "query_cls", "enable_baked_queries"}

Uris == [default |-> "sqlite:///a.db", replica |-> "sqlite:///b.db"]

\* databases argument: None, or a mapping of engine name -> URI
NoDatabases == [none |-> TRUE, items |-> EmptyDict]

Databases(m) == [none |-> FALSE, items |-> m]

DatabaseChoices ==
    {NoDatabases, Databases(EmptyDict), Databases(Restrict(Uris, {"default"})),
     Databases(Uris)}

OptionValues ==
    [autoflush |-> {"True", "False"}, autocommit |-> {"True", "False"},
     expire_on_commit |-> {"False"}, echo |-> {"True"}, pool_size |-> {"5"}]

\* every **options bag over the option names above
OptionBags ==
    UNION {[keys -> UNION {OptionValues[k] : k \in keys}] : keys \in SUBSET DOMAIN OptionValues}

WellTyped(options) == \A k \in DOMAIN options : options[k] \in OptionValues[k]

Threads == {"t1", "t2", "t3"}

\* scopefunc argument: None (sessions are thread-local), or a function of the
\* running thread; SharedScope gives t1 and t2 the same scope key
SharedScope == [t \in Threads |-> IF t = "t3" THEN "k2" ELSE "k1"]

ScopeFuncs == {[none |-> TRUE, f |-> [t \in Threads |-> t]],
               [none |-> FALSE, f |-> SharedScope]}

----------------------------------------------------------------------------
(* SQLAlchemy.__init__ and its helpers *)

\* _set_session_options(options): the two option sets it stores on self
_set_session_options(options) ==
    LET taken == {arg \in get_cls_kwargs_Session : arg \in DOMAIN options}
        session_options == Restrict(options, taken)
        rest == Restrict(options, DOMAIN options \ taken)
    IN  [engine_options |-> SetDefault(rest, "echo", "False"),
         session_options |->
             SetDefault(SetDefault(session_options, "autoflush", "True"),
                        "autocommit", "False")]

\* declarative_base(name="Model", cls=..., metaclass=..., metadata=...): the base
\* class, recorded by the role each argument plays in it
declarative_base(cls, metaclass, metadata) ==
    [cls |-> cls, metaclass |-> metaclass, metadata |-> Or(metadata, "MetaData()")]

\* def _make_declarative_base(self, model_class, metaclass=None, metadata=None)
_make_declarative_base(model_class, metaclass, metadata) ==
    declarative_base(Or(model_class, "DefaultModel"), Or(metaclass, "DefaultMeta"),
                     metadata)

\* self.Model = self._make_declarative_base(model_class, metadata, metaclass):
\* the call site passes its three values by position
Make_Model(a) == _make_declarative_base(a.model_class, a.metadata, a.metaclass)

\* sa.create_engine(*pos, **kw): the handle, recorded by what it was created from
create_engine(pos, kw) == [url |-> pos[1], args |-> Tail(pos), kwargs |-> kw]

\* the registry keyed by URI instead of by engine name
Make_engines_by_url(databases, engine_options) ==
    [u \in {databases.items[k] : k \in DOMAIN databases.items} |->
        create_engine(<<u, engine_options>>, EmptyDict)]

\* {k: sa.create_engine(v, self.engine_options) for k, v in self.databases.items()}
Make_engines(databases, engine_options) ==
    [k \in DOMAIN databases.items |->
        create_engine(<<databases.items[k], engine_options>>, EmptyDict)]

\* sessionmaker(class_=..., **session_options).kw: sessionmaker's own defaults
\* for the keywords it names, then the caller's
sessionmaker_kw(session_options) ==
    Update([bind |-> None, autoflush |-> "True", autocommit |-> "False",
            expire_on_commit |-> "True"], session_options)

\* the attributes __init__ has set when it reaches line 83
Attrs_before_engines(a) ==
    LET o == _set_session_options(a.options)
    IN  [databases |-> a.databases, Model |-> Make_Model(a),
         engine_options |-> o.engine_options, session_options |-> o.session_options]

\* line 83 raises AttributeError when databases is None (None has no items())
Init_raises(a) == IF a.databases.none THEN "AttributeError" ELSE None

\* the attributes of the facade when __init__ returns
Attrs_after_init(a) ==
    LET s == Attrs_before_engines(a)
    IN  [databases |-> s.databases, Model |-> s.Model,
         engine_options |-> s.engine_options, session_options |-> s.session_options,
         engines |-> Make_engines(s.databases, s.engine_options)]

\* an engine handle standing for "no bind"
NoBind == [url |-> "-", args |-> <<>>, kwargs |-> EmptyDict]

NoEvent == [op |-> "none", thread |-> "-", key |-> "-", result |-> 0, found |-> 0,
            options |-> EmptyDict, before |-> EmptyDict, engine |-> "-",
            bind |-> NoBind, pos |-> <<>>, kwargs |-> EmptyDict, issued |-> {},
            rows |-> {}, dirty |-> FALSE, hint |-> None, error |-> None]

\* the state of the session machinery (sessionmaker, scoped_session) once built
Fresh_registry == [k \in Threads \cup {"k1", "k2"} |-> 0]

Idle == [t \in Threads |-> "idle"]

NoLocal == [t \in Threads |-> 0]

\* __init__ as one call: it returns a facade or raises
Construct ==
    /\ pc_init = "call"
    /\ pc_init' = IF Init_raises(args) # None THEN "failed" ELSE "done"
    /\ raised' = Init_raises(args)
    /\ IF Init_raises(args) # None
       THEN /\ self' = Attrs_before_engines(args)
            /\ UNCHANGED Session_kw
       ELSE /\ self' = Attrs_after_init(args)
            /\ Session_kw' = sessionmaker_kw(Attrs_after_init(args).session_options)
    /\ last' = [NoEvent EXCEPT !.op = "init", !.error = Init_raises(args)]
    /\ UNCHANGED <<args, registry, sessions, pc, local, ret, schema, store, read_bind>>

----------------------------------------------------------------------------
(* The scoped session: self._session = scoped_session(self.Session, scopefunc) *)

MaxSessions == 3

\* the facade exists: __init__ returned
Ready == pc_init = "done"

\* the registry key of the running thread: scopefunc(), or the thread itself
\* when scopefunc is None (scoped_session then keeps a thread-local registry)
Key(t) == args.scopefunc.f[t]

\* self.Session(): sessionmaker.__call__ builds a session from its kw; `key`
\* notes the scope the session was built for
New_session(kw, key) ==
    [opts |-> kw, closed |-> FALSE, scope |-> key, new |-> {}, flushed |-> {}]

\* registry[key] = val, whatever is cached
registry_set(reg, key, val) == [reg EXCEPT ![key] = val]

\* registry.setdefault(key, val) of the scopefunc registry
registry_setdefault(reg, key, val) ==
    IF reg[key] # 0 THEN reg ELSE [reg EXCEPT ![key] = val]

\* every scope's entry dropped
registry_clear_all(reg, key) == [k \in DOMAIN reg |-> 0]

\* nothing dropped
registry_keep(reg, key) == reg

\* registry.clear(): del registry[key], a KeyError swallowed
registry_clear(reg, key) == [reg EXCEPT ![key] = 0]

\* session.close() on the sessions in ids: the unit of work is emptied and its
\* transaction rolled back
Close(ss, ids) ==
    [i \in DOMAIN ss |->
        IF i \in ids
        THEN [ss[i] EXCEPT !.closed = TRUE, !.new = {}, !.flushed = {}]
        ELSE ss[i]]

\* sessions being built by threads that missed the registry
Building == {u \in Threads : pc[u] = "create"}

\* self._session(): try: return self.registry[key]
GocLookup(t) ==
    /\ Ready
    /\ pc[t] = "idle"
    /\ IF registry[Key(t)] # 0
       THEN /\ ret' = [ret EXCEPT ![t] = registry[Key(t)]]
            /\ last' = [NoEvent EXCEPT !.op = "get", !.thread = t, !.key = Key(t),
                                       !.found = registry[Key(t)],
                                       !.result = registry[Key(t)]]
            /\ UNCHANGED pc
       ELSE /\ Len(sessions) + Cardinality(Building) < MaxSessions
            /\ pc' = [pc EXCEPT ![t] = "create"]
            /\ UNCHANGED <<ret, last>>
    /\ UNCHANGED <<args, self, raised, pc_init, Session_kw, registry, sessions, local,
                   schema, store, read_bind>>

\* except KeyError: ... self.createfunc()
GocCreate(t) ==
    /\ pc[t] = "create"
    /\ sessions' = Append(sessions, New_session(Session_kw, Key(t)))
    /\ local' = [local EXCEPT ![t] = Len(sessions) + 1]
    /\ pc' = [pc EXCEPT ![t] = "insert"]
    /\ last' = [NoEvent EXCEPT !.op = "create", !.thread = t, !.key = Key(t),
                               !.result = Len(sessions) + 1]
    /\ UNCHANGED <<args, self, raised, pc_init, Session_kw, registry, ret, schema,
                   store, read_bind>>

\* the registry after the thread offers the session it built: setdefault for a
\* scopefunc registry, plain assignment for the thread-local one
Offer(reg, t) ==
    IF args.scopefunc.none
    THEN [reg EXCEPT ![Key(t)] = local[t]]
    ELSE registry_setdefault(reg, Key(t), local[t])

\* ... return self.registry.setdefault(key, <the session built>)
GocInsert(t) ==
    /\ pc[t] = "insert"
    /\ registry' = Offer(registry, t)
    /\ ret' = [ret EXCEPT ![t] = registry'[Key(t)]]
    /\ local' = [local EXCEPT ![t] = 0]
    /\ pc' = [pc EXCEPT ![t] = "idle"]
    /\ last' = [NoEvent EXCEPT !.op = "get", !.thread = t, !.key = Key(t),
                               !.result = registry'[Key(t)]]
    /\ UNCHANGED <<args, self, raised, pc_init, Session_kw, sessions, schema, store,
                   read_bind>>

\* scoped_session.remove(): if self.registry.has(): self.registry().close()
\*                          self.registry.clear()
\* remove and reconfigure are each taken as one step of the calling thread.
Removed_sessions(t) ==
    IF registry[Key(t)] # 0 THEN Close(sessions, {registry[Key(t)]}) ELSE sessions

Remove(t) ==
    /\ Ready
    /\ pc[t] = "idle"
    /\ sessions' = Removed_sessions(t)
    /\ registry' = registry_clear(registry, Key(t))
    /\ raised' = None
    /\ last' = [NoEvent EXCEPT !.op = "remove", !.thread = t, !.key = Key(t),
                               !.found = registry[Key(t)]]
    /\ UNCHANGED <<args, self, pc_init, Session_kw, pc, local, ret, schema, store,
                   read_bind>>

\* the keyword sets reconfigure is called with
ReconfigureOptions == {[autocommit |-> "True", expire_on_commit |-> "False"]}

\* the factory's keywords left as they were
configure_nothing(kw, new_kw) == kw

\* sessionmaker.configure(**new_kw): self.kw.update(new_kw)
configure(kw, new_kw) == Update(kw, new_kw)

\* def reconfigure(self, **kwargs)
reconfigure(t, kwargs) ==
    /\ Ready
    /\ pc[t] = "idle"
    /\ sessions' = Removed_sessions(t)
    /\ registry' = registry_clear(registry, Key(t))
    /\ self' = [self EXCEPT !.session_options = Update(self.session_options, kwargs)]
    /\ Session_kw' = configure(Session_kw, self'.session_options)
    /\ raised' = None
    /\ last' = [NoEvent EXCEPT !.op = "reconfigure", !.thread = t, !.key = Key(t),
                               !.found = registry[Key(t)], !.options = kwargs,
                               !.before = self.session_options]
    /\ UNCHANGED <<args, pc_init, pc, local, ret, schema, store, read_bind>>

----------------------------------------------------------------------------
(* Schema DDL: create_all and drop_all *)

\* an engine the caller built on its own, not one of self.engines
OtherEngine == [url |-> "sqlite:///other.db", args |-> <<>>, kwargs |-> EmptyDict]

\* the engine argument: None stands for "not given" (the parameter's default applies)
EngineArgs == {None, "default", "replica", "missing"}

\* the pass-through arguments the model draws from
PositionalArgs == {<<>>, <<OtherEngine>>}

KeywordArgs == {EmptyDict, [bind |-> OtherEngine], [checkfirst |-> "False"]}

\* def create_all(self, engine='default', *args, **kwargs)
Engine_param(engine) == IF engine = None THEN "default" ELSE engine

\* the default engine whatever the name
Engine_default(engines, name) == engines["default"]

\* self.engines[engine]
Engine_of(engines, name) == engines[name]

\* MetaData.create_all(self, bind=None, tables=None, checkfirst=True) and
\* MetaData.drop_all, the same: the parameters positional arguments bind to
DDL_params == <<"bind", "tables", "checkfirst">>

\* Python's binding of (*args, **kwargs) to DDL_params: a TypeError when there
\* are too many positional arguments or a parameter is given twice
Call_error(pos, kw) ==
    IF \/ Len(pos) > Len(DDL_params)
       \/ \E i \in 1..Len(pos) : i <= Len(DDL_params) /\ DDL_params[i] \in DOMAIN kw
    THEN "TypeError" ELSE None

\* the value the bind parameter receives
Call_bind(pos, kw) == IF Len(pos) >= 1 THEN pos[1] ELSE kw.bind

\* what one schema call does: the error it raises and the bind DDL is issued on
Schema_call(engine, pos, kwargs) ==
    LET name == Engine_param(engine)
    IN  IF name \notin DOMAIN self.engines
        THEN [error |-> "KeyError", bind |-> NoBind]
        ELSE LET kw == SetDefault(kwargs, "bind", Engine_of(self.engines, name))
             IN  IF Call_error(pos, kw) # None
                 THEN [error |-> Call_error(pos, kw), bind |-> NoBind]
                 ELSE [error |-> None, bind |-> Call_bind(pos, kw)]

\* the URLs of the databases one schema call issues DDL on
Issued(call) == IF call.error = None THEN {call.bind.url} ELSE {}

Schema_event(op, engine, pos, kwargs) ==
    LET call == Schema_call(engine, pos, kwargs)
    IN  [NoEvent EXCEPT !.op = op, !.engine = Engine_param(engine), !.pos = pos,
                        !.kwargs = kwargs, !.bind = call.bind,
                        !.issued = Issued(call), !.error = call.error]

create_all(engine, pos, kwargs) ==
    /\ Ready
    /\ engine = None => pos = <<>>
    /\ schema' = schema \cup Issued(Schema_call(engine, pos, kwargs))
    /\ raised' = Schema_call(engine, pos, kwargs).error
    /\ last' = Schema_event("create_all", engine, pos, kwargs)
    /\ UNCHANGED <<args, self, pc_init, Session_kw, registry, sessions, pc, local,
                   ret, store, read_bind>>

drop_all(engine, pos, kwargs) ==
    /\ Ready
    /\ engine = None => pos = <<>>
    /\ schema' = schema \ Issued(Schema_call(engine, pos, kwargs))
    /\ raised' = Schema_call(engine, pos, kwargs).error
    /\ last' = Schema_event("drop_all", engine, pos, kwargs)
    /\ UNCHANGED <<args, self, pc_init, Session_kw, registry, sessions, pc, local,
                   ret, store, read_bind>>

----------------------------------------------------------------------------
(* Routed sessions: the routing policy and the unit of work it serves.      *)
(* The routing class (.routing) and the session proxy (.session_proxy) are  *)
(* imported by main.py from modules outside it; this section follows the   *)
(* specification's sections 4.2 and 4.3.                                    *)

Rows == {"r1", "r2"}

\* the bind hints a read is issued with: none, or an engine name
Hints == {None, "replica", "missing"}

\* whether the session's unit of work holds writes that are not committed
Dirty(s) == s.new # {} \/ s.flushed # {}

\* Routing Policy, 4.2: reads go to the read mapping whatever the session holds
get_bind_per_call(s, kind, hint) ==
    IF hint # None THEN hint
    ELSE IF kind = "write" THEN "default"
    ELSE read_bind

\* Routing Policy, 4.2: the engine name chosen for one operation of session s
get_bind(s, kind, hint) ==
    IF hint # None THEN hint
    ELSE IF kind = "write" THEN "default"
    ELSE IF Dirty(s) THEN "default"
    ELSE read_bind

\* the session cached for the running thread's scope
Current(t) == registry[Key(t)]

InSession(t) == Ready /\ pc[t] = "idle" /\ Current(t) # 0

\* the session after a flush: its new objects are written in its transaction
Flushed(s) == [s EXCEPT !.new = {}, !.flushed = s.flushed \cup s.new]

\* db.add(row)
add(t, row) ==
    /\ InSession(t)
    /\ sessions' = [sessions EXCEPT ![Current(t)].new = @ \cup {row}]
    /\ last' = [NoEvent EXCEPT !.op = "add", !.thread = t, !.key = Key(t),
                               !.result = Current(t), !.rows = {row}]
    /\ UNCHANGED <<args, self, raised, pc_init, Session_kw, registry, pc, local, ret,
                   schema, store, read_bind>>

\* db.flush(): a write, routed by the policy
flush(t) ==
    /\ InSession(t)
    /\ sessions' = [sessions EXCEPT ![Current(t)] = Flushed(@)]
    /\ last' = [NoEvent EXCEPT !.op = "flush", !.thread = t, !.key = Key(t),
                               !.result = Current(t),
                               !.engine = get_bind(sessions[Current(t)], "write", None)]
    /\ UNCHANGED <<args, self, raised, pc_init, Session_kw, registry, pc, local, ret,
                   schema, store, read_bind>>

\* db.commit(): flush, then the transaction's rows are committed where the
\* writes were routed
commit(t) ==
    /\ InSession(t)
    /\ LET s == Flushed(sessions[Current(t)])
           e == get_bind(sessions[Current(t)], "write", None)
       IN  /\ store' = [store EXCEPT ![e] = @ \cup s.flushed]
           /\ sessions' = [sessions EXCEPT ![Current(t)] = [s EXCEPT !.flushed = {}]]
           /\ last' = [NoEvent EXCEPT !.op = "commit", !.thread = t, !.key = Key(t),
                                      !.result = Current(t), !.engine = e]
    /\ UNCHANGED <<args, self, raised, pc_init, Session_kw, registry, pc, local, ret,
                   schema, read_bind>>

\* the rows a read of session s sees on engine e: the committed rows of that
\* database and, on the engine its writes went to, the rows it has flushed
Visible(s, e) == store[e] \cup (IF e = "default" THEN s.flushed ELSE {})

\* db.query(...).all(): the policy picks the engine from the session as the
\* read finds it; autoflush then flushes before the statement is emitted
query(t, hint) ==
    /\ InSession(t)
    /\ LET s0 == sessions[Current(t)]
           e == get_bind(s0, "read", hint)
           s == IF s0.opts.autoflush = "True" THEN Flushed(s0) ELSE s0
       IN  IF e \notin DOMAIN self.engines
           THEN /\ raised' = "UnknownEngineError"
                /\ last' = [NoEvent EXCEPT !.op = "query", !.thread = t,
                                           !.key = Key(t), !.result = Current(t),
                                           !.hint = hint, !.dirty = Dirty(s0),
                                           !.error = "UnknownEngineError"]
                /\ UNCHANGED sessions
           ELSE /\ raised' = None
                /\ sessions' = [sessions EXCEPT ![Current(t)] = s]
                /\ last' = [NoEvent EXCEPT !.op = "query", !.thread = t,
                                           !.key = Key(t), !.result = Current(t),
                                           !.hint = hint, !.dirty = Dirty(s0),
                                           !.engine = e, !.rows = Visible(s, e)]
    /\ UNCHANGED <<args, self, pc_init, Session_kw, registry, pc, local, ret, schema,
                   store, read_bind>>

CtorArgs ==
    [databases : DatabaseChoices, metadata : {None, "my_metadata"},
     metaclass : {None, "MyMeta"}, model_class : {None, "MyModel"},
     scopefunc : ScopeFuncs, options : {o \in OptionBags : WellTyped(o)}]

InitCtor ==
    /\ args \in CtorArgs
    /\ self = EmptyDict
    /\ raised = None
    /\ pc_init = "call"
    /\ Session_kw = EmptyDict
    /\ registry = Fresh_registry
    /\ sessions = <<>>
    /\ pc = Idle
    /\ local = NoLocal
    /\ ret = NoLocal
    /\ schema = {}
    /\ store = [n \in DOMAIN Uris |-> {}]
    /\ read_bind = "default"
    /\ last = NoEvent

NextCtor == Construct

SpecCtor == InitCtor /\ [][NextCtor]_vars

\* the facade the session, schema and registry properties are checked on
FacadeArgs ==
    {a \in CtorArgs :
        /\ a.databases = Databases(Uris)
        /\ a.metadata = None /\ a.metaclass = None /\ a.model_class = None
        /\ a.options = EmptyDict}

Init == InitCtor /\ args \in FacadeArgs

Next ==
    \/ Construct
    \/ \E t \in Threads : GocLookup(t)
    \/ \E t \in Threads : GocCreate(t)
    \/ \E t \in Threads : GocInsert(t)
    \/ \E t \in Threads : Remove(t)
    \/ \E t \in Threads : \E kwargs \in ReconfigureOptions : reconfigure(t, kwargs)

Spec == Init /\ [][Next]_vars

\* the facades the schema and registry properties are checked on: every
\* databases mapping, one thread using the session
SchemaArgs ==
    {a \in CtorArgs :
        /\ ~a.databases.none
        /\ a.scopefunc.none
        /\ a.metadata = None /\ a.metaclass = None /\ a.model_class = None
        /\ a.options = EmptyDict}

InitSchema == InitCtor /\ args \in SchemaArgs

NextSchema ==
    \/ Construct
    \/ \E e \in EngineArgs, pos \in PositionalArgs, kw \in KeywordArgs :
          create_all(e, pos, kw)
    \/ \E e \in EngineArgs, pos \in PositionalArgs, kw \in KeywordArgs :
          drop_all(e, pos, kw)
    \/ GocLookup("t1")
    \/ GocCreate("t1")
    \/ GocInsert("t1")
    \/ Remove("t1")
    \/ \E kwargs \in ReconfigureOptions : reconfigure("t1", kwargs)

SpecSchema == InitSchema /\ [][NextSchema]_vars

\* the facades the routing properties are checked on: a default and a replica
\* database, reads mapped to either, autoflush on or off
RoutingArgs ==
    {a \in CtorArgs :
        /\ a.databases = Databases(Uris)
        /\ a.scopefunc.none
        /\ a.metadata = None /\ a.metaclass = None /\ a.model_class = None
        /\ a.options \in {EmptyDict, [autoflush |-> "False"]}}

InitRouting ==
    /\ args \in RoutingArgs
    /\ self = EmptyDict
    /\ raised = None
    /\ pc_init = "call"
    /\ Session_kw = EmptyDict
    /\ registry = Fresh_registry
    /\ sessions = <<>>
    /\ pc = Idle
    /\ local = NoLocal
    /\ ret = NoLocal
    /\ schema = {}
    /\ store = [n \in DOMAIN Uris |-> {}]
    /\ read_bind \in {"default", "replica"}
    /\ last = NoEvent

NextRouting ==
    \/ Construct
    \/ GocLookup("t1")
    \/ GocCreate("t1")
    \/ GocInsert("t1")
    \/ Remove("t1")
    \/ \E row \in Rows : add("t1", row)
    \/ flush("t1")
    \/ commit("t1")
    \/ \E hint \in Hints : query("t1", hint)

SpecRouting == InitRouting /\ [][NextRouting]_vars

----------------------------------------------------------------------------
(* Properties *)

Constructed == pc_init # "call"

IsClosed(i) == i # 0 /\ sessions[i].closed

\* the sessions built for scope key k that have not been closed
Live(k) == {i \in DOMAIN sessions : sessions[i].scope = k /\ ~sessions[i].closed}

\* two threads of one scope key both hold an open session from self._session()
BothServed(t, u) ==
    /\ t # u /\ Key(t) = Key(u)
    /\ ret[t] # 0 /\ ~IsClosed(ret[t])
    /\ ret[u] # 0 /\ ~IsClosed(ret[u])

C2_Reconfigure ==
    /\ last.op = "reconfigure" =>
          /\ registry[last.key] = 0
          /\ DOMAIN self.session_options = DOMAIN last.before \cup DOMAIN last.options
          /\ \A k \in DOMAIN self.session_options :
                self.session_options[k] =
                    IF k \in DOMAIN last.options THEN last.options[k] ELSE last.before[k]
    /\ Ready => \A k \in DOMAIN self.session_options :
                    k \in DOMAIN Session_kw /\ Session_kw[k] = self.session_options[k]
    /\ last.op = "create" =>
          \A k \in DOMAIN self.session_options :
              /\ k \in DOMAIN sessions[last.result].opts
              /\ sessions[last.result].opts[k] = self.session_options[k]

\* the calling scope's next session after a reconfigure is built with the new
\* options, its removed predecessor having had the old ones
C2_Witness ==
    /\ last.op = "create"
    /\ sessions[last.result].opts.autocommit = "True"
    /\ \E i \in DOMAIN sessions :
          /\ sessions[i].closed /\ sessions[i].scope = last.key
          /\ sessions[i].opts.autocommit = "False"

\* C3: a reconfigure step leaves the registry entry of every other scope key,
\* and the session cached there, as they were.
C3_Step ==
    \A t \in Threads :
        (\E kwargs \in ReconfigureOptions : reconfigure(t, kwargs)) =>
            \A k \in DOMAIN registry \ {Key(t)} :
                /\ registry'[k] = registry[k]
                /\ registry[k] # 0 => sessions'[registry[k]] = sessions[registry[k]]

C3_OtherScopesUntouched == [][C3_Step]_vars

\* after a reconfigure, another scope still has its session cached, built with
\* the options from before
C3_Witness ==
    /\ last.op = "reconfigure"
    /\ self.session_options.autocommit = "True"
    /\ \E k \in DOMAIN registry \ {last.key} :
          registry[k] # 0 /\ sessions[registry[k]].opts.autocommit = "False"

\* C4: no session is cached under two keys and no cached session has been
\* removed; a get_or_create that finds a session cached returns that instance
\* and leaves the cache alone; the instance get_or_create returns is the open
\* one cached for the key, so never one removed before; remove evicts and
\* closes the cached session, and with nothing cached it changes nothing and
\* raises nothing.
C4_State ==
    /\ \A k1, k2 \in DOMAIN registry :
          k1 # k2 /\ registry[k1] # 0 => registry[k1] # registry[k2]
    /\ \A k \in DOMAIN registry : ~IsClosed(registry[k])

C4_Step ==
    \A t \in Threads :
        /\ (GocLookup(t) /\ registry[Key(t)] # 0) =>
              ret'[t] = registry[Key(t)] /\ registry' = registry
        /\ GocInsert(t) =>
              /\ ret'[t] = registry'[Key(t)]
              /\ ret'[t] # 0 /\ ~sessions'[ret'[t]].closed
              /\ registry[Key(t)] # 0 => registry' = registry
        /\ (Remove(t) /\ registry[Key(t)] = 0) =>
              registry' = registry /\ sessions' = sessions /\ raised' = None
        /\ (Remove(t) /\ registry[Key(t)] # 0) =>
              registry'[Key(t)] = 0 /\ sessions'[registry[Key(t)]].closed

C4_OnePerScope == []C4_State /\ [][C4_Step]_vars

\* a get_or_create that follows a remove in the same scope returned a new session
C4_Witness ==
    /\ last.op = "get"
    /\ ret[last.thread] = last.result
    /\ \E i \in DOMAIN sessions :
          sessions[i].closed /\ sessions[i].scope = last.key /\ i # last.result

\* C5, as stated: a construction with databases None or empty raises.
C5_NoDatabasesRaises ==
    (Constructed /\ (args.databases.none \/ DOMAIN args.databases.items = {}))
        => raised # None

SchemaOps == {"create_all", "drop_all"}

\* C6, as stated: a schema call on a registered engine name issues its DDL on
\* that engine's database and no other, whatever the pass-through arguments;
\* on an unknown name it raises KeyError and issues nothing.
C6_AlwaysNamedEngine ==
    last.op \in SchemaOps =>
        IF last.engine \in DOMAIN self.engines
        THEN last.error = None /\ last.issued = {self.engines[last.engine].url}
        ELSE last.error = "KeyError" /\ last.issued = {}

\* C6, amended: an unknown name raises KeyError with no DDL issued; on a
\* registered name, without positional pass-through arguments the DDL goes to
\* the caller's bind keyword when one is given and to the named engine
\* otherwise, and to no other database; with any positional pass-through
\* argument the call raises TypeError and issues nothing.
C6_NamedEngineUnlessBound ==
    last.op \in SchemaOps =>
        IF last.engine \notin DOMAIN self.engines
        THEN last.error = "KeyError" /\ last.issued = {}
        ELSE IF last.pos # <<>>
        THEN last.error = "TypeError" /\ last.issued = {}
        ELSE IF "bind" \in DOMAIN last.kwargs
        THEN last.error = None /\ last.issued = {last.kwargs.bind.url}
        ELSE /\ last.error = None
             /\ last.bind = self.engines[last.engine]
             /\ last.issued = {self.engines[last.engine].url}

\* a schema call naming the replica, with a pass-through keyword other than
\* bind, issued its DDL on the replica
C6_Witness ==
    /\ last.op = "drop_all"
    /\ last.engine = "replica"
    /\ "checkfirst" \in DOMAIN last.kwargs
    /\ last.issued = {Uris.replica}

\* C7: once the facade is built, its engine registry has exactly the names of
\* the databases mapping, each holding the handle created from that name's URI,
\* in every state the operations lead to; a lookup of any other name raises
\* KeyError.
C7_Registry ==
    Ready =>
        /\ DOMAIN self.engines = DOMAIN args.databases.items
        /\ \A n \in DOMAIN self.engines : self.engines[n].url = args.databases.items[n]
        /\ (last.op \in SchemaOps /\ last.engine \notin DOMAIN args.databases.items)
              => last.error = "KeyError"

\* a lookup of an unregistered name failed on a facade with two engines, after
\* sessions were used
C7_Witness ==
    /\ Ready
    /\ Cardinality(DOMAIN self.engines) = 2
    /\ last.op = "create_all" /\ last.engine = "missing" /\ last.error = "KeyError"
    /\ Len(sessions) > 0
    /\ self.session_options.autocommit = "True"

C9_OwnRoles ==
    Constructed =>
        /\ self.Model.metadata = Or(args.metadata, "MetaData()")
        /\ self.Model.metaclass = Or(args.metaclass, "DefaultMeta")
        /\ self.Model.cls = Or(args.model_class, "DefaultModel")

\* C10, as stated: the options bag is split between session options (the
\* session constructor's keywords) and engine options (the rest), each with its
\* defaults where the caller gave no value, and every engine is created with
\* the engine options as its options.
C10_OptionsPartition ==
    Ready =>
        /\ \A k \in DOMAIN args.options :
              IF k \in get_cls_kwargs_Session
              THEN /\ k \in DOMAIN self.session_options
                   /\ self.session_options[k] = args.options[k]
                   /\ k \notin DOMAIN self.engine_options
              ELSE /\ k \in DOMAIN self.engine_options
                   /\ self.engine_options[k] = args.options[k]
                   /\ k \notin DOMAIN self.session_options
        /\ DOMAIN self.session_options =
              (DOMAIN args.options \cap get_cls_kwargs_Session)
                  \cup {"autoflush", "autocommit"}
        /\ DOMAIN self.engine_options =
              (DOMAIN args.options \ get_cls_kwargs_Session) \cup {"echo"}
        /\ "autoflush" \notin DOMAIN args.options => self.session_options.autoflush = "True"
        /\ "autocommit" \notin DOMAIN args.options => self.session_options.autocommit = "False"
        /\ "echo" \notin DOMAIN args.options => self.engine_options.echo = "False"
        /\ \A n \in DOMAIN self.engines :
              self.engines[n].kwargs = self.engine_options

====
